---- MODULE Spec2Model ----
(***************************************************************************)
(* Model of the mock job server of tests/mock_server.py: the two module    *)
(* level dictionaries jobs and job_status, the generator objects that      *)
(* serve as per-job status cursors, and the three request handlers         *)
(* put_packages, get_status and auth_login, run by a threaded server: a    *)
(* handler is a sequence of steps, each touching the shared dictionaries   *)
(* at most once, and steps of different requests interleave freely.        *)
(***************************************************************************)
EXTENDS Integers, Sequences, FiniteSets, TLC

\* ------------------------------------------------------------------ bounds
NumThreads == 2
MaxJobs == 2
MaxTime == 1

Threads == 1..NumThreads
\* the values str(uuid4()) can take in the model
JobIds == 1..MaxJobs
\* a job_id that is no uuid the server ever generates ("nonexistent-id")
UnknownId == 0

VARIABLES
    jobs,        \* dict job_id -> reference (index into job_objs) of the job dict
    job_status,  \* dict job_id -> reference (index into gen_objs) of the generator
    job_objs,    \* heap of job dicts, in order of creation
    gen_objs,    \* heap of generator objects, in order of creation
    now,         \* int(time.time())
    th,          \* per server thread: the request it runs, its locals, its position
    resp,        \* per server thread: the response of the request that just ended
    issued,      \* history: the job_ids returned by put_packages, in order
    nok          \* history: per job_id, how many status calls on it returned 200

vars == <<jobs, job_status, job_objs, gen_objs, now, th, resp, issued, nok>>

\* ------------------------------------------------------------ pure helpers
\* the statuses listed in another order
update_status_swapped == <<"PENDING", "NEW", "COMPLETED">>

\* a generator that stops after PENDING
update_status_short == <<"NEW", "PENDING">>

\* the sequence the generator walks through
update_status == <<"NEW", "PENDING", "COMPLETED">>

\* a generator object just created by update_status(): nothing yielded yet
NewGen == [idx |-> 0, running |-> FALSE, finished |-> FALSE]

\* the literal status build_job puts in the job dict
SeedStatus == "PENDING"

\* the literal id build_job puts in the job dict
SeedId == "59482a54-423b-448d-8325-f171c9dc336b"

Dependency(name, version, status, heuristics, started_at) ==
    [heuristics |-> heuristics, last_updated |-> started_at, license |-> "None",
     name |-> name, risk |-> 60, status |-> status, type |-> "npm",
     version |-> version, vulnerabilities |-> <<>>]

Packages(started_at) ==
    << [heuristics |-> << [score |-> "3.14", data |-> [foo |-> "bar"]] >>,
        last_updated |-> started_at, license |-> "None", name |-> "foo",
        risk |-> 60, status |-> "NEW", type |-> "npm", version |-> "1.0.0",
        vulnerabilities |-> <<>>,
        dependencies |->
          << Dependency("bar", "2.3.4", "COMPLETED", <<>>, started_at),
             Dependency("baz", "9.8.7", "NEW",
                        << [score |-> "42", data |-> "None"] >>, started_at) >>] >>

\* the dict build_job returns (the job_id argument is not used in it)
JobDict(job_id, started_at) ==
    [id |-> SeedId, last_updated |-> started_at, started_at |-> started_at,
     status |-> SeedStatus,
     user_id |-> "86bb664a-5331-489b-8901-f052f155ec79",
     packages |-> Packages(started_at)]

\* ------------------------------------------------- decoded JSON payloads
Str(s) == [type |-> "str", val |-> s]
Num(s) == [type |-> "int", val |-> s]
Dict(f) == [type |-> "dict", val |-> f]
List(q) == [type |-> "list", val |-> q]
Null == [type |-> "null", val |-> "null"]

PkgFoo == Dict([name |-> Str("foo"), version |-> Str("1.0.0"), type |-> Str("npm")])
PkgNameOnly == Dict([name |-> Str("foo")])
PkgEmptyName == Dict([name |-> Str(""), version |-> Str("1.0.0"), type |-> Str("npm")])
PkgIntVersion == Dict([name |-> Str("foo"), version |-> Num("1"), type |-> Str("npm")])
PkgExtraKey ==
    Dict([name |-> Str("foo"), version |-> Str("1.0.0"), type |-> Str("npm"),
          license |-> Str("MIT")])

\* the request bodies the model submits to PUT /request/packages
PutPayloads ==
    { Dict([packages |-> List(<<PkgFoo>>)]),
      Dict([packages |-> List(<<>>)]),
      Dict([packages |-> List(<<PkgNameOnly>>)]),
      Dict([packages |-> List(<<PkgEmptyName>>)]),
      Dict([packages |-> List(<<PkgIntVersion>>)]),
      Dict([packages |-> List(<<PkgExtraKey>>)]),
      Dict([package |-> List(<<PkgFoo>>)]),
      Dict(<<>>),
      Null }

\* the request bodies the model submits to POST /auth/login
LoginPayloads ==
    { Dict([login |-> Str("user"), password |-> Str("secret")]),
      Dict([login |-> Str("user")]),
      Null }

\* A voluptuous schema that is a dict whose keys are all Required(k) and whose
\* values are all the type str: the data is a dict, has every key, has no
\* other key (extra keys are not allowed by default), and every value is a str.
RequiredStrDict(keys, d) ==
    /\ d.type = "dict"
    /\ keys \subseteq DOMAIN d.val
    /\ DOMAIN d.val \subseteq keys
    /\ \A k \in DOMAIN d.val : d.val[k].type = "str"

\* A voluptuous schema that is a one-element list: the data is a list and every
\* element matches the element schema (an empty list matches).
PackageList(v) ==
    /\ v.type = "list"
    /\ \A i \in DOMAIN v.val : RequiredStrDict({"name", "version", "type"}, v.val[i])

\* Schema({'packages': [...]}): the key 'packages' is a plain key, which a
\* voluptuous Schema treats as optional (required=False by default).
PackagesSchema(d) ==
    /\ d.type = "dict"
    /\ DOMAIN d.val \subseteq {"packages"}
    /\ "packages" \in DOMAIN d.val => PackageList(d.val["packages"])

LoginSchema(d) == RequiredStrDict({"login", "password"}, d)

\* validate_request(req_json, schema): TRUE when schema(req_json) returns,
\* FALSE when it raises voluptuous.MultipleInvalid
validate_request(req_json, schema) ==
    IF schema = "packages" THEN PackagesSchema(req_json) ELSE LoginSchema(req_json)

\* ------------------------------------------------------------ thread state
Idle ==
    [op |-> "none", pc |-> "idle", payload |-> Null, job_id |-> 0,
     job |-> 0, status |-> 0, tm |-> 0, val |-> "none"]

NoResp == [code |-> 0, exc |-> "none", body |-> "none"]

\* json.dumps({}) of the default of jobs.get(job_id, {})
EmptyDict == "{}"

\* Flask turns an exception that escapes a handler into a 500 response
Raise(exc) == [code |-> 500, exc |-> exc, body |-> "Internal Server Error"]

InFlight(t) == th[t].pc \notin {"idle", "done"}

\* no response is waiting to be handed over
Quiet == \A t \in Threads : th[t].pc # "done"

\* thread t is at the given statement and may take its step. Handing a response
\* over (Return) touches nothing but the thread's own locals, so it is taken
\* before any other step: this leaves out no order of the shared steps.
At(t, label) == Quiet /\ th[t].pc = label

\* the status calls on job_id that have started and not yet ended
Polling(job_id) == {t \in Threads : th[t].op = "get" /\ InFlight(t) /\ th[t].job_id = job_id}

\* the uuids generated so far
UsedIds == DOMAIN job_status \cup DOMAIN jobs

\* an identifier scheme that can repeat a value
uuid4_any == JobIds

\* str(uuid4()): a random 122-bit value, modelled as a value no earlier call returned
uuid4 == JobIds \ UsedIds

Init ==
    /\ jobs = <<>>
    /\ job_status = <<>>
    /\ job_objs = <<>>
    /\ gen_objs = <<>>
    /\ now = 0
    /\ th = [t \in Threads |-> Idle]
    /\ resp = [t \in Threads |-> NoResp]
    /\ issued = <<>>
    /\ nok = [j \in JobIds |-> 0]

\* time.time() moves on
Tick ==
    /\ Quiet
    /\ now < MaxTime
    /\ now' = now + 1
    /\ UNCHANGED <<jobs, job_status, job_objs, gen_objs, th, resp, issued, nok>>

\* a request ends: the response is handed to the client
Finish(t, r) ==
    /\ th' = [th EXCEPT ![t] = [Idle EXCEPT !.op = th[t].op, !.pc = "done",
                                             !.job_id = th[t].job_id,
                                             !.val = th[t].val]]
    /\ resp' = [resp EXCEPT ![t] = r]

Goto(t, label) == th' = [th EXCEPT ![t].pc = label]

\* ------------------------------------------- PUT /request/packages
\* the cursor registered before the body is validated
PutValidate_late(t, payload) ==
    /\ At(t, "idle")
    /\ ~validate_request(payload, "packages")
    /\ \E id \in uuid4 : job_status' = (id :> (Len(gen_objs) + 1)) @@ job_status
    /\ gen_objs' = Append(gen_objs, NewGen)
    /\ th' = [th EXCEPT ![t] = [Idle EXCEPT !.op = "put", !.pc = "done",
                                             !.payload = payload]]
    /\ resp' = [resp EXCEPT ![t] = Raise("MultipleInvalid")]
    /\ UNCHANGED <<jobs, job_objs, now, issued, nok>>

\* put_packages, lines 76-83: the schema is built and the body validated. A
\* body that fails raises out of the handler before anything is created.
PutValidate(t, payload) ==
    /\ At(t, "idle")
    /\ IF validate_request(payload, "packages")
       THEN /\ Cardinality(UsedIds)
                 + Cardinality({u \in Threads : th[u].pc = "put_85"}) < MaxJobs
            /\ th' = [th EXCEPT ![t] = [Idle EXCEPT !.op = "put", !.pc = "put_85",
                                                     !.payload = payload]]
            /\ UNCHANGED resp
       ELSE /\ th' = [th EXCEPT ![t] = [Idle EXCEPT !.op = "put", !.pc = "done",
                                                     !.payload = payload]]
            /\ resp' = [resp EXCEPT ![t] = Raise("MultipleInvalid")]
    /\ UNCHANGED <<jobs, job_status, job_objs, gen_objs, now, issued, nok>>

\* one generator, created for the first job, stored for every job
Build_shared(t) ==
    /\ At(t, "put_85")
    /\ \E id \in uuid4 :
          /\ th' = [th EXCEPT ![t].job_id = id, ![t].payload = Null,
                              ![t].tm = now, ![t].pc = "put_86"]
          /\ job_status' = (id :> 1) @@ job_status
    /\ gen_objs' = IF gen_objs = <<>> THEN <<NewGen>> ELSE gen_objs
    /\ UNCHANGED <<jobs, job_objs, now, resp, issued, nok>>

\* build_job without line 20: the generator is created and stored nowhere
Build_nocursor(t) ==
    /\ At(t, "put_85")
    /\ \E id \in uuid4 :
          th' = [th EXCEPT ![t].job_id = id, ![t].payload = Null,
                           ![t].tm = now, ![t].pc = "put_86"]
    /\ gen_objs' = Append(gen_objs, NewGen)
    /\ UNCHANGED <<jobs, job_status, job_objs, now, resp, issued, nok>>

\* line 85, job_id = str(uuid4()), and build_job, lines 18-20: the clock is
\* read, a new generator is created and stored under job_id
Build(t) ==
    /\ At(t, "put_85")
    /\ \E id \in uuid4 :
          /\ th' = [th EXCEPT ![t].job_id = id, ![t].payload = Null,
                              ![t].tm = now, ![t].pc = "put_86"]
          /\ job_status' = (id :> (Len(gen_objs) + 1)) @@ job_status
    /\ gen_objs' = Append(gen_objs, NewGen)
    /\ UNCHANGED <<jobs, job_objs, now, resp, issued, nok>>

\* build_job, lines 21-64, and put_packages, line 86: the dict is built and
\* stored under job_id
Put86(t) ==
    /\ At(t, "put_86")
    /\ job_objs' = Append(job_objs, JobDict(th[t].job_id, th[t].tm))
    /\ jobs' = (th[t].job_id :> (Len(job_objs) + 1)) @@ jobs
    /\ Goto(t, "put_88")
    /\ UNCHANGED <<job_status, gen_objs, now, resp, issued, nok>>

\* lines 87-88: return json.dumps({'job_id': job_id}), 201
Put88(t) ==
    /\ At(t, "put_88")
    /\ Finish(t, [code |-> 201, exc |-> "none", body |-> [job_id |-> th[t].job_id]])
    /\ issued' = Append(issued, th[t].job_id)
    /\ UNCHANGED <<jobs, job_status, job_objs, gen_objs, now, nok>>

put_packages(t) ==
    \/ \E payload \in PutPayloads : PutValidate(t, payload)
    \/ Build(t)
    \/ Put86(t)
    \/ Put88(t)

\* ------------------------------------------- GET /request/packages/<job_id>
\* jobs[job_id] in place of jobs.get(job_id, {}): an unknown key raises
Get92_keyerror(t, job_id) ==
    /\ At(t, "idle")
    /\ IF job_id \in DOMAIN jobs
       THEN /\ th' = [th EXCEPT ![t] =
                        [Idle EXCEPT !.op = "get", !.pc = "get_95", !.job_id = job_id,
                                     !.job = jobs[job_id],
                                     !.status = job_status[job_id]]]
            /\ UNCHANGED resp
       ELSE /\ th' = [th EXCEPT ![t] =
                        [Idle EXCEPT !.op = "get", !.pc = "done", !.job_id = job_id]]
            /\ resp' = [resp EXCEPT ![t] = Raise("KeyError")]
    /\ UNCHANGED <<jobs, job_status, job_objs, gen_objs, now, issued, nok>>

\* lines 92-94 and 98-101: job = jobs.get(job_id, {}), which is false when it
\* is the empty default, and then the response is 404 with the empty dict;
\* otherwise status = job_status.get(job_id, {})
Get92(t, job_id) ==
    /\ At(t, "idle")
    /\ IF job_id \in DOMAIN jobs
       THEN /\ th' = [th EXCEPT ![t] =
                        [Idle EXCEPT !.op = "get", !.pc = "get_95", !.job_id = job_id,
                                     !.job = jobs[job_id],
                                     !.status = IF job_id \in DOMAIN job_status
                                                THEN job_status[job_id] ELSE 0]]
            /\ UNCHANGED resp
       ELSE /\ th' = [th EXCEPT ![t] =
                        [Idle EXCEPT !.op = "get", !.pc = "done", !.job_id = job_id]]
            /\ resp' = [resp EXCEPT ![t] =
                          [code |-> 404, exc |-> "none", body |-> EmptyDict]]
    /\ UNCHANGED <<jobs, job_status, job_objs, gen_objs, now, issued, nok>>

\* line 95, right-hand side: int(time.time())
Get95(t) ==
    /\ At(t, "get_95")
    /\ th' = [th EXCEPT ![t].tm = now, ![t].pc = "get_95w"]
    /\ UNCHANGED <<jobs, job_status, job_objs, gen_objs, now, resp, issued, nok>>

\* line 95 written so that it also stamps the packages of the job
Get95w_deep(t) ==
    /\ At(t, "get_95w")
    /\ job_objs' = [job_objs EXCEPT ![th[t].job].last_updated = th[t].tm,
                                    ![th[t].job].packages[1].last_updated = th[t].tm]
    /\ Goto(t, "get_96")
    /\ UNCHANGED <<jobs, job_status, gen_objs, now, resp, issued, nok>>

\* line 95, the store: job['last_updated'] = ...
Get95w(t) ==
    /\ At(t, "get_95w")
    /\ job_objs' = [job_objs EXCEPT ![th[t].job].last_updated = th[t].tm]
    /\ Goto(t, "get_96")
    /\ UNCHANGED <<jobs, job_status, gen_objs, now, resp, issued, nok>>

\* line 96, next(status) is called: a dict is no iterator (TypeError); a
\* generator that another thread is executing raises ValueError; a generator
\* that has returned raises StopIteration; otherwise the generator is resumed
Get96(t) ==
    /\ At(t, "get_96")
    /\ IF th[t].status = 0
       THEN /\ Finish(t, Raise("TypeError"))
            /\ UNCHANGED gen_objs
       ELSE LET g == gen_objs[th[t].status] IN
            IF g.running
            THEN /\ Finish(t, Raise("ValueError"))
                 /\ UNCHANGED gen_objs
            ELSE IF g.finished
            THEN /\ Finish(t, Raise("StopIteration"))
                 /\ UNCHANGED gen_objs
            ELSE /\ gen_objs' = [gen_objs EXCEPT ![th[t].status].running = TRUE]
                 /\ Goto(t, "gen_67")
                 /\ UNCHANGED resp
    /\ UNCHANGED <<jobs, job_status, job_objs, now, issued, nok>>

\* a cursor that keeps yielding its last value once it has reached it
Gen67_idempotent(t) ==
    /\ At(t, "gen_67")
    /\ LET g == gen_objs[th[t].status]
           n == IF g.idx < Len(update_status) THEN g.idx + 1 ELSE g.idx
       IN  /\ gen_objs' = [gen_objs EXCEPT ![th[t].status] =
                              [g EXCEPT !.idx = n, !.running = FALSE]]
           /\ th' = [th EXCEPT ![t].val = update_status[n], ![t].pc = "get_96w"]
    /\ UNCHANGED <<jobs, job_status, job_objs, now, resp, issued, nok>>

\* a generator that starts over once it has yielded COMPLETED
Gen67_cycle(t) ==
    /\ At(t, "gen_67")
    /\ LET g == gen_objs[th[t].status]
           n == IF g.idx < Len(update_status) THEN g.idx + 1 ELSE 1
       IN  /\ gen_objs' = [gen_objs EXCEPT ![th[t].status] =
                              [g EXCEPT !.idx = n, !.running = FALSE]]
           /\ th' = [th EXCEPT ![t].val = update_status[n], ![t].pc = "get_96w"]
    /\ UNCHANGED <<jobs, job_status, job_objs, now, resp, issued, nok>>

\* update_status, lines 67-68, runs in the generator's frame up to the next
\* yield, or to the end of the loop, where the generator returns and next()
\* raises StopIteration
Gen67(t) ==
    /\ At(t, "gen_67")
    /\ LET g == gen_objs[th[t].status] IN
       IF g.idx < Len(update_status)
       THEN /\ gen_objs' = [gen_objs EXCEPT ![th[t].status] =
                               [g EXCEPT !.idx = g.idx + 1, !.running = FALSE]]
            /\ th' = [th EXCEPT ![t].val = update_status[g.idx + 1], ![t].pc = "get_96w"]
            /\ UNCHANGED resp
       ELSE /\ gen_objs' = [gen_objs EXCEPT ![th[t].status] =
                               [g EXCEPT !.finished = TRUE, !.running = FALSE]]
            /\ Finish(t, Raise("StopIteration"))
    /\ UNCHANGED <<jobs, job_status, job_objs, now, issued, nok>>

\* line 96, the store: job['status'] = ...; line 97
Get96w(t) ==
    /\ At(t, "get_96w")
    /\ job_objs' = [job_objs EXCEPT ![th[t].job].status = th[t].val]
    /\ Goto(t, "get_101")
    /\ UNCHANGED <<jobs, job_status, gen_objs, now, resp, issued, nok>>

\* a store that drops a job once its COMPLETED status has been returned
Get101_expire(t) ==
    /\ At(t, "get_101")
    /\ Finish(t, [code |-> 200, exc |-> "none", body |-> job_objs[th[t].job]])
    /\ nok' = [nok EXCEPT ![th[t].job_id] = @ + 1]
    /\ jobs' = IF job_objs[th[t].job].status = "COMPLETED"
               THEN [j \in DOMAIN jobs \ {th[t].job_id} |-> jobs[j]]
               ELSE jobs
    /\ UNCHANGED <<job_status, job_objs, gen_objs, now, issued>>

\* line 101: return json.dumps(job), code
Get101(t) ==
    /\ At(t, "get_101")
    /\ Finish(t, [code |-> 200, exc |-> "none", body |-> job_objs[th[t].job]])
    /\ nok' = [nok EXCEPT ![th[t].job_id] = @ + 1]
    /\ UNCHANGED <<jobs, job_status, job_objs, gen_objs, now, issued>>

\* the steps of get_status after the lookup
GetSteps(t) ==
    \/ Get95(t)
    \/ Get95w(t)
    \/ Get96(t)
    \/ Gen67(t)
    \/ Get96w(t)
    \/ Get101(t)

get_status(t) ==
    \/ \E job_id \in JobIds \cup {UnknownId} : Get92(t, job_id)
    \/ GetSteps(t)

\* ------------------------------------------------------ POST /auth/login
\* lines 105-114: the body is validated and two fixed tokens are returned
auth_login(t) ==
    /\ At(t, "idle")
    /\ \E payload \in LoginPayloads :
          /\ th' = [th EXCEPT ![t] = [Idle EXCEPT !.op = "login", !.pc = "done",
                                                   !.payload = payload]]
          /\ resp' = [resp EXCEPT ![t] =
                        IF validate_request(payload, "login")
                        THEN [code |-> 200, exc |-> "none",
                              body |-> [access_token |-> "asdfghjkl",
                                        refresh_token |-> "qwertyuio"]]
                        ELSE Raise("MultipleInvalid")]
    /\ UNCHANGED <<jobs, job_status, job_objs, gen_objs, now, issued, nok>>

\* the server thread is free for the next request
Return(t) ==
    /\ th[t].pc = "done"
    /\ th' = [th EXCEPT ![t] = Idle]
    /\ resp' = [resp EXCEPT ![t] = NoResp]
    /\ UNCHANGED <<jobs, job_status, job_objs, gen_objs, now, issued, nok>>

\* the threaded server: any thread takes any step of any request
Next ==
    \/ Tick
    \/ \E t \in Threads : put_packages(t)
    \/ \E t \in Threads : get_status(t)
    \/ \E t \in Threads : auth_login(t)
    \/ \E t \in Threads : Return(t)

Spec == Init /\ [][Next]_vars

\* a status call that starts only when no other status call on that job_id is
\* under way
Get92Seq(t, job_id) == Polling(job_id) = {} /\ Get92(t, job_id)

get_status_seq(t) ==
    \/ \E job_id \in JobIds \cup {UnknownId} : Get92Seq(t, job_id)
    \/ GetSteps(t)

\* clients that poll a job one call after the other. Calls on different
\* job_ids, submits and logins still run concurrently.
SeqNext ==
    \/ Tick
    \/ \E t \in Threads : put_packages(t)
    \/ \E t \in Threads : get_status_seq(t)
    \/ \E t \in Threads : auth_login(t)
    \/ \E t \in Threads : Return(t)

SeqSpec == Init /\ [][SeqNext]_vars

\* ------------------------------------------------------------ the claims
\* the order of the lifecycle states, as the specification gives it
StatusOrder == <<"NEW", "PENDING", "COMPLETED">>

Rank(status) == CHOOSE i \in DOMAIN StatusOrder : StatusOrder[i] = status

Range(s) == {s[i] : i \in DOMAIN s}

Done(t) == th[t].pc = "done"

\* thread t holds the response of a status call
Polled(t) == Done(t) /\ th[t].op = "get"

\* thread t takes a step of a status call on job_id
StatusStepOn(job_id) ==
    \E t \in Threads :
       /\ th[t].op = "get" /\ th[t].job_id = job_id /\ InFlight(t)
       /\ th'[t] # th[t]

\* C1: when the status calls on a job are issued one after the other, the
\* n-th call that returns 200 reports the n-th of NEW, PENDING, COMPLETED, and
\* there is no fourth: nothing is skipped, nothing is reported twice, whatever
\* status the job dict was created with.
C1_SequentialPolls ==
    \A t \in Threads :
       (Polled(t) /\ resp[t].code = 200) =>
          /\ nok[th[t].job_id] \in DOMAIN StatusOrder
          /\ resp[t].body.status = StatusOrder[nok[th[t].job_id]]

C1_Witness ==
    \E t \in Threads :
       /\ Polled(t) /\ resp[t].code = 200
       /\ nok[th[t].job_id] = 3
       /\ resp[t].body.status = "COMPLETED"

\* C2: with status calls on one job running concurrently, the status in each
\* 200 response is the value that call's own advance of the cursor produced.
C2_OwnAdvanceReported ==
    \A t \in Threads :
       (Polled(t) /\ resp[t].code = 200) => resp[t].body.status = th[t].val

\* C3: the job_ids returned by submits are pairwise different, each is
\* registered when it is returned, and no status call on a returned job_id is
\* answered 404.
C3_FreshAndFound ==
    /\ \A i, k \in DOMAIN issued : i # k => issued[i] # issued[k]
    /\ Range(issued) \subseteq DOMAIN jobs
    /\ \A t \in Threads :
          (Polled(t) /\ th[t].job_id \in Range(issued)) => resp[t].code # 404

C3_Witness ==
    \E t \in Threads :
       /\ Polled(t) /\ resp[t].code = 200
       /\ Len(issued) = 2
       /\ th[t].job_id = issued[2]
       /\ nok[th[t].job_id] = 1

\* C4: the step in which a submit fails validation changes neither dictionary
\* nor any job or cursor object, returns no job_id, and the response is the
\* error of the failed validation.
C4_RejectStep ==
    \A t \in Threads :
       (th[t].pc = "idle" /\ th'[t].op = "put" /\ th'[t].pc = "done") =>
          /\ UNCHANGED <<jobs, job_status, job_objs, gen_objs, issued>>
          /\ resp'[t] = Raise("MultipleInvalid")

\* C4: every step satisfies C4_RejectStep: a rejected submit registers nothing.
C4_RejectedSubmitRegistersNothing == [][C4_RejectStep]_vars

C4_Witness ==
    \E t \in Threads :
       /\ Done(t) /\ th[t].op = "put" /\ resp[t].exc = "MultipleInvalid"
       /\ th[t].payload = Dict([packages |-> List(<<PkgNameOnly>>)])
       /\ DOMAIN jobs # {}

\* C5: no step moves the status stored in a job dict to an earlier value of
\* NEW, PENDING, COMPLETED than the one it held.
C5_NoRegressStep ==
    \A i \in DOMAIN job_objs :
       Rank(job_objs'[i].status) >= Rank(job_objs[i].status)

\* C5: every step satisfies C5_NoRegressStep: a stored status never moves back.
C5_StatusNeverRegresses == [][C5_NoRegressStep]_vars

\* C6: a job's dict and its generator change only in a step of a status call
\* on that job_id, and its dictionary entries never change; so with the calls
\* on each job issued one after the other, each job reports NEW, PENDING,
\* COMPLETED in order whatever runs on other jobs in between.
C6_FrameStep ==
    \A j \in JobIds :
       /\ j \in DOMAIN jobs =>
             /\ j \in DOMAIN jobs' /\ jobs'[j] = jobs[j]
             /\ job_objs'[jobs[j]] # job_objs[jobs[j]] => StatusStepOn(j)
       /\ j \in DOMAIN job_status =>
             /\ j \in DOMAIN job_status' /\ job_status'[j] = job_status[j]
             /\ gen_objs'[job_status[j]] # gen_objs[job_status[j]] => StatusStepOn(j)

\* C6: every step satisfies C6_FrameStep, and each job polled sequentially
\* reports its own NEW, PENDING, COMPLETED.
C6_JobsIndependent == [][C6_FrameStep]_vars /\ []C1_SequentialPolls

C6_Witness ==
    \E t, u \in Threads :
       /\ Polled(t) /\ resp[t].code = 200 /\ resp[t].body.status = "COMPLETED"
       /\ th[u].op = "get" /\ th[u].pc = "get_96w" /\ th[u].val = "PENDING"
       /\ th[u].job_id # th[t].job_id

\* C7: no two job_ids of the store hold dicts with the same 'id'.
C7_UniqueIdField ==
    \A a, b \in DOMAIN jobs :
       a # b => job_objs[jobs[a]].id # job_objs[jobs[b]].id

\* C8: a status call on a job_id that is not registered is answered 404 with
\* the empty dict, raises nothing, and its step changes neither dictionary nor
\* any job or cursor object.
C8_UnknownStep ==
    \A t \in Threads : \A job_id \in (JobIds \cup {UnknownId}) \ DOMAIN jobs :
       (th[t].pc = "idle" /\ th'[t].op = "get" /\ th'[t].job_id = job_id) =>
          /\ th'[t].pc = "done"
          /\ resp'[t] = [code |-> 404, exc |-> "none", body |-> EmptyDict]
          /\ UNCHANGED <<jobs, job_status, job_objs, gen_objs, issued, nok>>

\* C8: every step satisfies C8_UnknownStep: an unknown job_id gets 404 and {}.
C8_UnknownJobNotFound == [][C8_UnknownStep]_vars

C8_Witness ==
    \E t \in Threads :
       /\ Polled(t) /\ th[t].job_id = UnknownId /\ resp[t].code = 404
       /\ DOMAIN jobs # {}

\* the generator has yielded its last value
Exhausted(g) == gen_objs[g].idx = Len(StatusOrder)

\* C9: a call of next() on a generator that has already yielded COMPLETED
\* never yields: the status call ends with a 500 that carries no job, raised by
\* StopIteration (by ValueError when another call is inside the generator at
\* that moment), the fourth time and every later time.
C9_OverPollStep ==
    \A t \in Threads :
       (/\ th[t].pc \in {"get_96", "gen_67"} /\ th'[t] # th[t]
        /\ th[t].status # 0 /\ Exhausted(th[t].status)) =>
          \/ th[t].pc = "get_96" /\ th'[t].pc = "gen_67"
          \/ /\ th'[t].pc = "done"
             /\ resp'[t].code = 500
             /\ resp'[t].body = "Internal Server Error"
             /\ \/ resp'[t].exc = "StopIteration"
                \/ resp'[t].exc = "ValueError" /\ gen_objs[th[t].status].running
             /\ job_objs'[th[t].job].status = job_objs[th[t].job].status

\* C9: every step satisfies C9_OverPollStep: next() past COMPLETED always fails.
C9_OverPollingFails == [][C9_OverPollStep]_vars

C9_Witness ==
    \E t \in Threads :
       /\ Polled(t) /\ resp[t].exc = "StopIteration"
       /\ nok[th[t].job_id] = 3
       /\ gen_objs[job_status[th[t].job_id]].finished

\* C10: a job dict whose status is COMPLETED keeps that status in every step.
C10_CompletedStep ==
    \A i \in DOMAIN job_objs :
       job_objs[i].status = "COMPLETED" => job_objs'[i].status = "COMPLETED"

\* C10: every step satisfies C10_CompletedStep: COMPLETED is never left.
C10_CompletedIsTerminal == [][C10_CompletedStep]_vars

\* C11: with a clock that never runs backwards, no step lowers the
\* last_updated stored in a job dict, whatever the interleaving of the status
\* calls on the job, and last_updated is never below the job's started_at.
C11_LastUpdatedStep ==
    \A i \in DOMAIN job_objs :
       /\ job_objs'[i].last_updated >= job_objs[i].last_updated
       /\ job_objs'[i].last_updated >= job_objs'[i].started_at

\* C11: every step satisfies C11_LastUpdatedStep: last_updated never decreases.
C11_LastUpdatedMonotone == [][C11_LastUpdatedStep]_vars

\* the fields of a job dict that a status call is not to touch
Immutable(job) ==
    [id |-> job.id, user_id |-> job.user_id, started_at |-> job.started_at,
     packages |-> job.packages]

\* C12: every job dict holds the id, user_id, started_at and packages
\* (elements, order, nested dependencies and heuristics) that build_job gave
\* it; a status call changes nothing but status and last_updated.
C12_OnlyStatusAndStamp ==
    \A i \in DOMAIN job_objs :
       Immutable(job_objs[i]) = Immutable(JobDict(0, job_objs[i].started_at))

C12_Witness ==
    \E t \in Threads :
       /\ Polled(t) /\ resp[t].code = 200
       /\ resp[t].body.status = "COMPLETED"
       /\ resp[t].body.last_updated > resp[t].body.started_at
       /\ resp[t].body.packages = Packages(resp[t].body.started_at)

\* ---------------------------------------------- a repeated identifier
\* put_packages, lines 76-83, with the bound of the model on the number of
\* job dicts rather than on the number of job_ids
PutValidateDup(t, payload) ==
    /\ At(t, "idle")
    /\ IF validate_request(payload, "packages")
       THEN /\ Len(gen_objs)
                 + Cardinality({u \in Threads : th[u].pc = "put_85"}) < MaxJobs
            /\ th' = [th EXCEPT ![t] = [Idle EXCEPT !.op = "put", !.pc = "put_85",
                                                     !.payload = payload]]
            /\ UNCHANGED resp
       ELSE /\ th' = [th EXCEPT ![t] = [Idle EXCEPT !.op = "put", !.pc = "done",
                                                     !.payload = payload]]
            /\ resp' = [resp EXCEPT ![t] = Raise("MultipleInvalid")]
    /\ UNCHANGED <<jobs, job_status, job_objs, gen_objs, now, issued, nok>>

\* line 85 and build_job, lines 18-20, when str(uuid4()) may return a value
\* it has returned before: job_status[job_id] = status_it is a plain store
BuildDup(t) ==
    /\ At(t, "put_85")
    /\ \E id \in JobIds :
          /\ th' = [th EXCEPT ![t].job_id = id, ![t].payload = Null,
                              ![t].tm = now, ![t].pc = "put_86"]
          /\ job_status' = (id :> (Len(gen_objs) + 1)) @@ job_status
    /\ gen_objs' = Append(gen_objs, NewGen)
    /\ UNCHANGED <<jobs, job_objs, now, resp, issued, nok>>

put_packages_dup(t) ==
    \/ \E payload \in PutPayloads : PutValidateDup(t, payload)
    \/ BuildDup(t)
    \/ Put86(t)
    \/ Put88(t)

DupNext ==
    \/ Tick
    \/ \E t \in Threads : put_packages_dup(t)
    \/ \E t \in Threads : get_status(t)
    \/ \E t \in Threads : auth_login(t)
    \/ \E t \in Threads : Return(t)

\* the server with an identifier source that can repeat a value
DupSpec == Init /\ [][DupNext]_vars

\* C13: a submit whose job_id is already registered fails with DuplicateID, and
\* its steps leave the entries of that job_id in both dictionaries, the job
\* dict and the generator they refer to, as they were.
C13_DuplicateStep ==
    \A t \in Threads :
       (/\ th[t].op = "put" /\ th[t].pc = "put_85" /\ th'[t] # th[t]
        /\ th'[t].job_id \in DOMAIN job_status) =>
          /\ th'[t].pc = "done"
          /\ resp'[t] = Raise("DuplicateID")
          /\ UNCHANGED <<jobs, job_status, job_objs, gen_objs>>

\* C13: every step satisfies C13_DuplicateStep: a duplicate insert is refused.
C13_DuplicateRefused == [][C13_DuplicateStep]_vars

\* a record with name, version and type, each a non-empty string
PackageRecord(r) ==
    /\ r.type = "dict"
    /\ {"name", "version", "type"} \subseteq DOMAIN r.val
    /\ \A k \in {"name", "version", "type"} :
          r.val[k].type = "str" /\ r.val[k].val # ""

\* a mapping with a packages key whose value is a sequence of such records
SubmitShape(d) ==
    /\ d.type = "dict"
    /\ "packages" \in DOMAIN d.val
    /\ d.val["packages"].type = "list"
    /\ \A i \in DOMAIN d.val["packages"].val :
          PackageRecord(d.val["packages"].val[i])

\* C14: a submit gets past validation (and goes on to create a job and return
\* 201) only if its payload is a mapping with a packages key whose value is a
\* sequence of records holding name, version and type as non-empty strings;
\* any other payload ends in the validation error.
C14_AcceptsOnlyWellFormed ==
    \A t \in Threads :
       th[t].op = "put" =>
          /\ th[t].pc = "put_85" => SubmitShape(th[t].payload)
          /\ (th[t].pc = "done" /\ ~SubmitShape(th[t].payload)
                 /\ resp[t].code # 201) => resp[t].exc = "MultipleInvalid"

\* C15: no step takes a job_id out of jobs or out of job_status.
C15_KeepStep ==
    /\ DOMAIN jobs \subseteq DOMAIN jobs'
    /\ DOMAIN job_status \subseteq DOMAIN job_status'

\* a job_id that a submit has returned is registered, and no status call on a
\* registered job_id is answered 404
C15_Found ==
    /\ Range(issued) \subseteq DOMAIN jobs \cap DOMAIN job_status
    /\ \A t \in Threads :
          (Polled(t) /\ th[t].job_id \in DOMAIN jobs) =>
             resp[t].code \in {200, 500}

\* C15: a job is never removed: every step satisfies C15_KeepStep, so a job_id
\* that a submit returned stays registered and a later status call on it is
\* never answered NotFound, whatever ran in between.
C15_NeverRemoved == [][C15_KeepStep]_vars /\ []C15_Found

C15_Witness ==
    \E t \in Threads :
       /\ Polled(t) /\ resp[t].code = 500
       /\ Len(issued) = MaxJobs
       /\ th[t].job_id = issued[1]
       /\ nok[issued[1]] = 3 /\ nok[issued[2]] = 3
       /\ now = MaxTime

\* ------------------------------------------------------------- progress
\* a client issues a status call on job_id
PollStart(job_id) == \E t \in Threads : Get92Seq(t, job_id)

\* thread t goes on with the request it is running
Running(t) == Build(t) \/ Put86(t) \/ Put88(t) \/ GetSteps(t) \/ Return(t)

\* the handlers alone: no step of the clock, no step that is not a request
LiveNext ==
    \/ \E t \in Threads : put_packages(t)
    \/ \E t \in Threads : get_status_seq(t)
    \/ \E t \in Threads : auth_login(t)
    \/ \E t \in Threads : Return(t)

\* Clients that poll sequentially and keep polling, on a server whose threads
\* keep running. The server starts a thread for every request, so a status
\* call that a client keeps issuing is served however busy the other threads
\* are, and a thread that has started a handler is scheduled again. Both are
\* strong fairness here: a step waits while a response is handed over (Quiet),
\* so it is enabled again and again rather than without interruption. The
\* clock is left standing: no handler waits for it.
LiveSpec ==
    /\ Init /\ [][LiveNext]_vars
    /\ \A t \in Threads : SF_vars(Running(t))
    /\ \A job_id \in JobIds : SF_vars(PollStart(job_id))

\* the status calls on job_id that have stored their status and not returned
Returning(job_id) ==
    {t \in Threads : th[t].op = "get" /\ th[t].job_id = job_id /\ th[t].pc = "get_101"}

\* the stored status is COMPLETED exactly from the third successful status
\* call on (its store included)
C16_AfterThree ==
    \A j \in DOMAIN jobs :
       job_objs[jobs[j]].status = "COMPLETED"
          <=> nok[j] + Cardinality(Returning(j)) = 3

\* C16: when clients keep polling a registered job, its stored status becomes
\* COMPLETED, by the status calls alone (the clock need not move), and it is
\* COMPLETED exactly when three status calls on the job have succeeded.
C16_PollingCompletes ==
    /\ \A j \in JobIds :
          (j \in DOMAIN jobs)
             ~> (j \in DOMAIN jobs /\ job_objs[jobs[j]].status = "COMPLETED")
    /\ []C16_AfterThree

C16_Witness ==
    \E j \in DOMAIN jobs :
       /\ job_objs[jobs[j]].status = "COMPLETED"
       /\ nok[j] = 3
       /\ ~gen_objs[job_status[j]].finished
       /\ \A t \in Threads : th[t].pc = "idle"

\* C17: in every state, those inside a submit included, every job_id of jobs
\* is a job_id of job_status that refers to a generator, every status call
\* that found the job holds a generator, and none has failed with the
\* TypeError of next() on the default {}.
C17_CursorForEveryJob ==
    /\ DOMAIN jobs \subseteq DOMAIN job_status
    /\ \A j \in DOMAIN job_status : job_status[j] \in DOMAIN gen_objs
    /\ \A t \in Threads :
          /\ (th[t].op = "get" /\ InFlight(t)) => th[t].status \in DOMAIN gen_objs
          /\ resp[t].exc # "TypeError"

C17_Witness ==
    \E t, u \in Threads :
       /\ th[t].op = "put" /\ th[t].pc = "put_86"
       /\ th[t].job_id \in DOMAIN job_status \ DOMAIN jobs
       /\ th[u].op = "get" /\ th[u].pc = "get_96"
       /\ th[u].job_id \in DOMAIN jobs

\* thread t runs a status call that has not yet drawn from a generator that
\* has nothing left to yield: next() on line 96 can only raise
Overpolling(t) ==
    /\ th[t].op = "get"
    /\ th[t].pc \in {"get_95", "get_95w", "get_96", "gen_67"}
    /\ th[t].status # 0 /\ Exhausted(th[t].status)

\* C18: no step of a status call that fails because the generator is used up
\* changes the job dict: not status, not last_updated, nor any other field.
C18_FailedCallStep ==
    \A t \in Threads :
       (Overpolling(t) /\ th'[t] # th[t]) =>
          job_objs'[th[t].job] = job_objs[th[t].job]

\* C18: every step satisfies C18_FailedCallStep: a status call that fails on
\* the exhausted cursor leaves the job record as it was.
C18_FailedCallChangesNothing == [][C18_FailedCallStep]_vars

\* no step moves a generator back, and no step gives a registered job_id
\* another generator
C19_CursorStep ==
    /\ \A g \in DOMAIN gen_objs :
          /\ gen_objs'[g].idx >= gen_objs[g].idx
          /\ gen_objs[g].finished => gen_objs'[g].finished
    /\ \A j \in DOMAIN job_status :
          j \in DOMAIN job_status' /\ job_status'[j] = job_status[j]

\* per job, the 200 responses are no more than the values drawn from its
\* generator, and those are no more than three
C19_AtMostThree ==
    \A j \in DOMAIN job_status :
       /\ nok[j] <= gen_objs[job_status[j]].idx
       /\ gen_objs[job_status[j]].idx <= Len(StatusOrder)

\* C19: for every job, under any interleaving of status calls, at most three
\* status calls ever return 200, one per value of the cursor, and the cursor of
\* a registered job_id is never moved back nor replaced.
C19_ThreeSuccessesAtMost == []C19_AtMostThree /\ [][C19_CursorStep]_vars

C19_Witness ==
    \E t \in Threads :
       /\ Polled(t) /\ resp[t].code = 500
       /\ nok[th[t].job_id] = 3
       /\ job_objs[jobs[th[t].job_id]].status # "COMPLETED"

====
